---- MODULE Spec2Model ----
(***************************************************************************)
(* The recipient registry of report_bot (bot.py) and the dialogues that    *)
(* mutate it.                                                              *)
(*                                                                         *)
(* recipients is the PostgreSQL table created by init_db; the three        *)
(* ConversationHandler objects built in main() keep one state per chat,    *)
(* and context.user_data keeps the pending target role.                    *)
(*                                                                         *)
(* Spec     : the bot as main() builds it.  Application is built without   *)
(*            concurrent_updates, so updates are handled one at a time and *)
(*            every handler runs to completion.                            *)
(* SpecConc : units of work of different chats run concurrently against    *)
(*            the same database (several workers on one table): the        *)
(*            statements of save_recipient's transaction and the two       *)
(*            transactions of setrole_receive_nickname interleave with the *)
(*            statements of other chats.                                   *)
(* SpecStore : the registry functions of bot.py called directly, with any  *)
(*            arguments.                                                   *)
(* SpecNotify: POST /notify of notify_service.py, one statement at a time, *)
(*            next to registry calls that change the table it reads.       *)
(* SpecOutage: Spec with a database that may be unreachable when a handler *)
(*            opens its connection.                                        *)
(***************************************************************************)
EXTENDS Integers, Sequences, FiniteSets, TLC

\* ---------------------------------------------------------------- bounds
NumChats == 2
NumNicks == 2
NumUsernames == 1
\* updates the bot receives in one run
MaxUpdates == 4

NickPool == <<"a", "b", "c", "d">>
UsernamePool == <<"u1", "u2", "u3">>

Chats == 1..NumChats
NickChars == {NickPool[i] : i \in 1..NumNicks}
Nicknames == {<<ch>> : ch \in NickChars}
\* update.effective_user.username is Optional[str]
NoUsername == "None"
Usernames == {NoUsername} \cup {UsernamePool[i] : i \in 1..NumUsernames}

\* ------------------------------------------------------------ constants
SUBSCRIBE_NICKNAME == 1
SETROLE_CHOOSE_ROLE == 2
SETROLE_WAIT_NICKNAME == 3
UNSUB_USER_WAIT_NICKNAME == 4
\* ConversationHandler.END: the chat has no entry in that conversation
END == 0

None == [none |-> TRUE]
NoRole == "none"
Roles == {"user", "admin"}

ConvNames == {"unsub_user_conv", "subscribe_conv", "setrole_conv"}

\* ----------------------------------------------------------------- text
\* str.strip(): drop leading and trailing blanks
RECURSIVE lstrip(_)
lstrip(s) ==
    IF s # <<>> /\ Head(s) = " " THEN lstrip(Tail(s)) ELSE s

RECURSIVE rstrip(_)
rstrip(s) ==
    IF s # <<>> /\ s[Len(s)] = " " THEN rstrip(SubSeq(s, 1, Len(s) - 1)) ELSE s

strip(s) == rstrip(lstrip(s))

\* ------------------------------------------------------------- registry
Recipient(nickname, chat_id, username, role) ==
    [nickname |-> nickname, chat_id |-> chat_id, username |-> username, role |-> role]

\* cursor.fetchone(): a row of the result set, or None
fetchone(rows) ==
    IF rows = {} THEN None ELSE CHOOSE r \in rows : TRUE

select_by_chat(R, chat_id) == {r \in R : r.chat_id = chat_id}

select_by_nickname(R, nickname) == {r \in R : r.nickname = nickname}

\* an INSERT into a table without the two constraints
insert_unchecked(R, row) ==
    [raised |-> "none", db |-> R \cup {row}]

\* INSERT under the table's constraints: nickname PRIMARY KEY, chat_id UNIQUE

insert_recipient(R, row) ==
    IF \E r \in R : r.nickname = row.nickname \/ r.chat_id = row.chat_id
    THEN [raised |-> "UniqueViolation", db |-> R]
    ELSE [raised |-> "none", db |-> R \cup {row}]

\* an upsert that rewrites the whole row
update_username_reset_role(R, nickname, username) ==
    {IF r.nickname = nickname THEN [r EXCEPT !.username = username, !.role = "user"] ELSE r
       : r \in R}

update_username(R, nickname, username) ==
    {IF r.nickname = nickname THEN [r EXCEPT !.username = username] ELSE r : r \in R}

get_recipients_by_chat(R, chat_id) == select_by_chat(R, chat_id)

get_recipient_by_nickname(R, nickname) == fetchone(select_by_nickname(R, nickname))

\* a delete that reports the rows but keeps them
delete_by_nickname_kept(R, nickname) ==
    [deleted |-> Cardinality(select_by_nickname(R, nickname)), db |-> R]

delete_by_nickname(R, nickname) ==
    [deleted |-> Cardinality(select_by_nickname(R, nickname)),
     db |-> R \ select_by_nickname(R, nickname)]

unsubscribe_chat(R, chat_id) ==
    [deleted |-> Cardinality(select_by_chat(R, chat_id)),
     db |-> R \ select_by_chat(R, chat_id)]

\* set_role without the check of its role argument
set_role_unvalidated(R, nickname, role) ==
    [raised |-> "none",
     updated |-> Cardinality(select_by_nickname(R, nickname)),
     db |-> {IF r.nickname = nickname THEN [r EXCEPT !.role = role] ELSE r : r \in R}]

set_role(R, nickname, role) ==
    IF role \notin {"user", "admin"}
    THEN [raised |-> "ValueError", updated |-> 0, db |-> R]
    ELSE [raised |-> "none",
          updated |-> Cardinality(select_by_nickname(R, nickname)),
          db |-> {IF r.nickname = nickname THEN [r EXCEPT !.role = role] ELSE r : r \in R}]

is_admin_chat(R, chat_id) ==
    \E r \in get_recipients_by_chat(R, chat_id) : r.role = "admin"

\* the branch with the nickname test before the chat test
save_decide_nick_first(row_chat, row_nick, nickname, chat_id) ==
    IF row_chat # None /\ row_nick # None
       /\ row_chat.nickname = row_nick.nickname /\ row_nick.nickname = nickname
    THEN "update"
    ELSE IF row_nick # None /\ row_nick.chat_id # chat_id
    THEN "nickname_taken"
    ELSE IF row_chat # None /\ row_chat.nickname # nickname
    THEN "chat_already_bound"
    ELSE "insert"

\* the branch without the nickname test
save_decide_no_nick_test(row_chat, row_nick, nickname, chat_id) ==
    IF row_chat # None /\ row_nick # None
       /\ row_chat.nickname = row_nick.nickname /\ row_nick.nickname = nickname
    THEN "update"
    ELSE IF row_chat # None /\ row_chat.nickname # nickname
    THEN "chat_already_bound"
    ELSE "insert"

\* save_recipient, the branch taken after the two existence reads
save_decide(row_chat, row_nick, nickname, chat_id) ==
    IF row_chat # None /\ row_nick # None
       /\ row_chat.nickname = row_nick.nickname /\ row_nick.nickname = nickname
    THEN "update"
    ELSE IF row_chat # None /\ row_chat.nickname # nickname
    THEN "chat_already_bound"
    ELSE IF row_nick # None /\ row_nick.chat_id # chat_id
    THEN "nickname_taken"
    ELSE "insert"

\* save_recipient, the statement that follows the branch, and its outcome
save_write(R, kind, row_chat, nickname, chat_id, username) ==
    CASE kind = "update" ->
            [raised |-> "none", msg |-> "subscribed", info |-> nickname,
             db |-> update_username(R, nickname, username)]
      [] kind = "chat_already_bound" ->
            [raised |-> "BotUserError", msg |-> "chat_already_bound",
             info |-> row_chat.nickname, db |-> R]
      [] kind = "nickname_taken" ->
            [raised |-> "BotUserError", msg |-> "nickname_taken",
             info |-> nickname, db |-> R]
      [] OTHER ->
            LET ins == insert_recipient(R, Recipient(nickname, chat_id, username, "user"))
            IN  [raised |-> ins.raised,
                 msg |-> IF ins.raised = "none" THEN "subscribed" ELSE "UniqueViolation",
                 info |-> nickname, db |-> ins.db]

\* save_recipient run to completion on the table R
save_recipient(R, nickname, chat_id, username) ==
    LET row_chat == fetchone(select_by_chat(R, chat_id))
        row_nick == fetchone(select_by_nickname(R, nickname))
    IN  save_write(R, save_decide(row_chat, row_nick, nickname, chat_id),
                   row_chat, nickname, chat_id, username)

\* --------------------------------------------------------------- events
\* An inbound update: a command, a free-text message or a callback query.
Command(name) ==
    [type |-> "command", name |-> name, text |-> <<>>, data |-> <<>>, username |-> NoUsername]

Text(text, username) ==
    [type |-> "text", name |-> "", text |-> text, data |-> <<>>, username |-> username]

Callback(data) ==
    [type |-> "callback", name |-> "", text |-> <<>>, data |-> data, username |-> NoUsername]

CommandNames ==
    {"start", "subscribe", "setrole", "unsubscribe_user", "cancel",
     "unsubscribe", "whoami", "list_users"}

Texts == {<<" ">>, <<" ", NickPool[1], " ">>} \cup {<<ch>> : ch \in NickChars}

TextEvents == {Text(t, u) : t \in Texts, u \in Usernames}

\* callback_data "prefix:rest" as the pair <<prefix, rest>>
CallbackData ==
    {<<"role", "admin">>, <<"role", "user">>, <<"role", "root">>, <<"menu", "admin">>}

CallbackEvents == {Callback(d) : d \in CallbackData}

Events ==
    {Command(n) : n \in CommandNames} \cup TextEvents \cup CallbackEvents

\* ---------------------------------------------------------------- state
VARIABLES
    recipients,   \* the rows of table recipients
    conv,         \* conv[name][chat]: state of that chat in ConversationHandler name
    user_data,    \* user_data[chat]: context.user_data["target_role"], or NoRole
    txn,          \* txn[chat]: the handler of that chat that is between two statements
    last,         \* the update handled last and what was replied to it
    updates,      \* number of updates received so far
    push          \* the POST /notify request in progress, or the last one answered

vars == <<recipients, conv, user_data, txn, last, updates, push>>

Idle == [pc |-> "idle"]

\* requests.post was not called
NoTransport == [kind |-> "none", status_code |-> 0, raised |-> "none"]

\* no request has reached POST /notify yet
NoPush ==
    [pc |-> "idle", secret |-> "", nickname |-> <<>>, chat_id |-> 0, sent |-> <<>>,
     transport |-> NoTransport, status |-> 0, body |-> "none"]

NoEvent ==
    [chat |-> 0, handler |-> "none", conv |-> "none", name |-> "", data |-> <<>>,
     nickname |-> <<>>, username |-> NoUsername, raised |-> "none", reply |-> "none",
     info |-> <<>>, removed |-> {}]

\* CREATE TABLE IF NOT EXISTS recipients: nickname PRIMARY KEY, chat_id UNIQUE
TableConstraints(R) ==
    \A r1, r2 \in R : (r1.nickname = r2.nickname \/ r1.chat_id = r2.chat_id) => r1 = r2

\* the tables over the model's nicknames, chats, usernames and roles: at most one
\* row per nickname (chat 0: no row), and no chat in two rows
Tables ==
    {R \in {{Recipient(n, f[n][1], f[n][2], f[n][3]) : n \in {m \in Nicknames : f[m][1] # 0}}
              : f \in [Nicknames -> (0..NumChats) \X Usernames \X Roles]}
       : TableConstraints(R)}

\* The bot starts (main) on the table earlier runs left behind: init_db keeps
\* the rows, which obey the table's constraints (the first admin is seeded by
\* the operator, no handler creates one); the dialogue state starts empty.
Init ==
    /\ recipients \in Tables
    /\ conv = [name \in ConvNames |-> [c \in Chats |-> END]]
    /\ user_data = [c \in Chats |-> NoRole]
    /\ txn = [c \in Chats |-> Idle]
    /\ last = NoEvent
    /\ updates = 0
    /\ push = NoPush

\* ------------------------------------------------------------- dispatch
is_command(ev, name) == ev.type = "command" /\ ev.name = name

\* filters.TEXT & ~filters.COMMAND
is_text(ev) == ev.type = "text"

\* CallbackQueryHandler(pattern=r"^role:(admin|user)$")
role_pattern(ev) ==
    ev.type = "callback" /\ ev.data[1] = "role" /\ ev.data[2] \in {"admin", "user"}

entry_point(cname, ev) ==
    CASE cname = "unsub_user_conv" /\ is_command(ev, "unsubscribe_user") -> "unsubscribe_user_start"
      [] cname = "subscribe_conv" /\ is_command(ev, "subscribe") -> "subscribe_start"
      [] cname = "setrole_conv" /\ is_command(ev, "setrole") -> "setrole_start"
      [] OTHER -> "none"

state_handler(cname, state, ev) ==
    CASE cname = "unsub_user_conv" /\ state = UNSUB_USER_WAIT_NICKNAME /\ is_text(ev) ->
            "unsubscribe_user_receive_nickname"
      [] cname = "subscribe_conv" /\ state = SUBSCRIBE_NICKNAME /\ is_text(ev) ->
            "subscribe_receive"
      [] cname = "setrole_conv" /\ state = SETROLE_CHOOSE_ROLE /\ role_pattern(ev) ->
            "setrole_choose_role"
      [] cname = "setrole_conv" /\ state = SETROLE_WAIT_NICKNAME /\ is_text(ev) ->
            "setrole_receive_nickname"
      [] OTHER -> "none"

fallback(cname, ev) ==
    IF is_command(ev, "cancel") THEN "cancel_all" ELSE "none"

\* ConversationHandler.check_update: entry points when the chat has no state
\* (allow_reentry is off), else the state's handlers, else the fallbacks
conv_check(cname, state, ev) ==
    IF state = END
    THEN entry_point(cname, ev)
    ELSE IF state_handler(cname, state, ev) # "none"
    THEN state_handler(cname, state, ev)
    ELSE fallback(cname, ev)

\* Application.process_update: the first handler of group 0 that accepts the
\* update, in the order main() adds them
route(c, ev) ==
    IF is_command(ev, "start")
    THEN [conv |-> "none", handler |-> "start"]
    ELSE IF conv_check("unsub_user_conv", conv["unsub_user_conv"][c], ev) # "none"
    THEN [conv |-> "unsub_user_conv",
          handler |-> conv_check("unsub_user_conv", conv["unsub_user_conv"][c], ev)]
    ELSE IF conv_check("subscribe_conv", conv["subscribe_conv"][c], ev) # "none"
    THEN [conv |-> "subscribe_conv",
          handler |-> conv_check("subscribe_conv", conv["subscribe_conv"][c], ev)]
    ELSE IF conv_check("setrole_conv", conv["setrole_conv"][c], ev) # "none"
    THEN [conv |-> "setrole_conv",
          handler |-> conv_check("setrole_conv", conv["setrole_conv"][c], ev)]
    ELSE IF is_command(ev, "unsubscribe")
    THEN [conv |-> "none", handler |-> "unsubscribe"]
    ELSE IF is_command(ev, "whoami")
    THEN [conv |-> "none", handler |-> "whoami"]
    ELSE IF is_command(ev, "list_users")
    THEN [conv |-> "none", handler |-> "list_users"]
    ELSE IF is_text(ev)
    THEN [conv |-> "none", handler |-> "unknown_text"]
    ELSE [conv |-> "none", handler |-> "none"]

\* error_handler: a BotUserError is shown as is, anything else as the generic text
error_handler(raised, msg) ==
    IF raised = "BotUserError" THEN msg ELSE "generic"

\* The end of one handler call: the reply (the handler's, or error_handler's when
\* it raised) and ConversationHandler's state update, skipped when it raised.
\* removed: the rows the handler's DELETE matched.
DoneRemoved(c, ev, h, cname, raised, msg, info, state, removed) ==
    /\ last' = [chat |-> c, handler |-> h, conv |-> cname, name |-> ev.name,
                data |-> ev.data, nickname |-> strip(ev.text),
                username |-> IF h = "subscribe_receive" THEN ev.username ELSE NoUsername,
                raised |-> raised,
                reply |-> IF raised = "none" THEN msg ELSE error_handler(raised, msg),
                info |-> info, removed |-> removed]
    /\ conv' = IF cname \in ConvNames /\ raised = "none"
               THEN [conv EXCEPT ![cname][c] = state]
               ELSE conv

Done(c, ev, h, cname, raised, msg, info, state) ==
    DoneRemoved(c, ev, h, cname, raised, msg, info, state, {})

\* update ev of chat c is taken from the queue and goes to handler h; the
\* updates of one chat are handled in order, one after the other
Routed(c, ev, h) ==
    /\ updates < MaxUpdates
    /\ updates' = updates + 1
    /\ txn[c] = Idle
    /\ route(c, ev).handler = h
    /\ UNCHANGED push

\* ------------------------------------------------------------- handlers
start(c, ev) ==
    /\ Routed(c, ev, "start")
    /\ Done(c, ev, "start", "none", "none", "start_help", <<>>, END)
    /\ UNCHANGED <<recipients, user_data, txn>>

cancel_all(c, ev) ==
    /\ Routed(c, ev, "cancel_all")
    /\ Done(c, ev, "cancel_all", route(c, ev).conv, "none", "cancelled", <<>>, END)
    /\ UNCHANGED <<recipients, user_data, txn>>

subscribe_start(c, ev) ==
    /\ Routed(c, ev, "subscribe_start")
    /\ Done(c, ev, "subscribe_start", "subscribe_conv", "none", "ask_nickname", <<>>,
            SUBSCRIBE_NICKNAME)
    /\ UNCHANGED <<recipients, user_data, txn>>

\* subscribe_receive on the table R
subscribe_receive_result(R, c, ev) ==
    LET nickname == strip(ev.text)
    IN  IF nickname = <<>>
        THEN [raised |-> "BotUserError", msg |-> "empty_nickname", info |-> <<>>, db |-> R]
        ELSE save_recipient(R, nickname, c, ev.username)

subscribe_receive(c, ev) ==
    /\ Routed(c, ev, "subscribe_receive")
    /\ LET res == subscribe_receive_result(recipients, c, ev)
       IN  /\ recipients' = res.db
           /\ Done(c, ev, "subscribe_receive", "subscribe_conv", res.raised, res.msg,
                   res.info, END)
    /\ UNCHANGED <<user_data, txn>>

unsubscribe(c, ev) ==
    /\ Routed(c, ev, "unsubscribe")
    /\ LET res == unsubscribe_chat(recipients, c)
       IN  /\ recipients' = res.db
           /\ DoneRemoved(c, ev, "unsubscribe", "none", "none",
                   IF res.deleted > 0 THEN "unsubscribed" ELSE "no_subscription", <<>>, END,
                   select_by_chat(recipients, c))
    /\ UNCHANGED <<user_data, txn>>

whoami(c, ev) ==
    /\ Routed(c, ev, "whoami")
    /\ Done(c, ev, "whoami", "none", "none",
            IF get_recipients_by_chat(recipients, c) = {} THEN "whoami_unbound" ELSE "whoami",
            <<>>, END)
    /\ UNCHANGED <<recipients, user_data, txn>>

list_users(c, ev) ==
    /\ Routed(c, ev, "list_users")
    /\ IF ~is_admin_chat(recipients, c)
       THEN Done(c, ev, "list_users", "none", "BotUserError", "admin_only", <<>>, END)
       ELSE Done(c, ev, "list_users", "none", "none",
                 IF recipients = {} THEN "no_users" ELSE "user_list", <<>>, END)
    /\ UNCHANGED <<recipients, user_data, txn>>

\* setrole_start without the admin gate
setrole_start_ungated(c, ev) ==
    /\ Routed(c, ev, "setrole_start")
    /\ Done(c, ev, "setrole_start", "setrole_conv", "none", "choose_role", <<>>,
            SETROLE_CHOOSE_ROLE)
    /\ UNCHANGED <<recipients, user_data, txn>>

setrole_start(c, ev) ==
    /\ Routed(c, ev, "setrole_start")
    /\ IF ~is_admin_chat(recipients, c)
       THEN Done(c, ev, "setrole_start", "setrole_conv", "BotUserError", "admin_only",
                 <<>>, END)
       ELSE Done(c, ev, "setrole_start", "setrole_conv", "none", "choose_role", <<>>,
                 SETROLE_CHOOSE_ROLE)
    /\ UNCHANGED <<recipients, user_data, txn>>

setrole_choose_role(c, ev) ==
    /\ Routed(c, ev, "setrole_choose_role")
    /\ IF ev.data[1] # "role"
       THEN /\ Done(c, ev, "setrole_choose_role", "setrole_conv", "BotUserError",
                    "bad_role_choice", <<>>, END)
            /\ UNCHANGED user_data
       ELSE IF ev.data[2] \notin {"admin", "user"}
       THEN /\ Done(c, ev, "setrole_choose_role", "setrole_conv", "BotUserError",
                    "bad_role", <<>>, END)
            /\ UNCHANGED user_data
       ELSE /\ user_data' = [user_data EXCEPT ![c] = ev.data[2]]
            /\ Done(c, ev, "setrole_choose_role", "setrole_conv", "none", "role_chosen",
                    <<ev.data[2]>>, SETROLE_WAIT_NICKNAME)
    /\ UNCHANGED <<recipients, txn>>

\* setrole_receive_nickname without the test old_role == role
setrole_lookup_no_same_role_test(R, role, ev) ==
    LET nickname == strip(ev.text)
        recipient == get_recipient_by_nickname(R, nickname)
    IN  IF nickname = <<>>
        THEN [step |-> "done", raised |-> "BotUserError", msg |-> "empty_nickname",
              info |-> <<>>, pop |-> FALSE]
        ELSE IF role \notin {"admin", "user"}
        THEN [step |-> "done", raised |-> "BotUserError", msg |-> "role_choice_lost",
              info |-> <<>>, pop |-> TRUE]
        ELSE IF recipient = None
        THEN [step |-> "done", raised |-> "BotUserError", msg |-> "nickname_not_found",
              info |-> nickname, pop |-> TRUE]
        ELSE [step |-> "set_role", raised |-> "none", msg |-> "", info |-> nickname,
              pop |-> FALSE, old_role |-> recipient.role]

\* setrole_receive_nickname up to and including the lookup of the target:
\* step = "done" when the handler ends there, "set_role" when it goes on to write
setrole_lookup(R, role, ev) ==
    LET nickname == strip(ev.text)
        recipient == get_recipient_by_nickname(R, nickname)
    IN  IF nickname = <<>>
        THEN [step |-> "done", raised |-> "BotUserError", msg |-> "empty_nickname",
              info |-> <<>>, pop |-> FALSE]
        ELSE IF role \notin {"admin", "user"}
        THEN [step |-> "done", raised |-> "BotUserError", msg |-> "role_choice_lost",
              info |-> <<>>, pop |-> TRUE]
        ELSE IF recipient = None
        THEN [step |-> "done", raised |-> "BotUserError", msg |-> "nickname_not_found",
              info |-> nickname, pop |-> TRUE]
        ELSE IF recipient.role = role
        THEN [step |-> "done", raised |-> "none", msg |-> "role_unchanged",
              info |-> nickname, pop |-> TRUE]
        ELSE [step |-> "set_role", raised |-> "none", msg |-> "", info |-> nickname,
              pop |-> FALSE, old_role |-> recipient.role]

\* setrole_receive_nickname from the call of set_role on
setrole_update(R, nickname, role) ==
    LET res == set_role(R, nickname, role)
    IN  IF res.raised # "none"
        THEN [raised |-> res.raised, msg |-> res.raised, info |-> nickname, db |-> res.db,
              pop |-> FALSE]
        ELSE IF res.updated = 0
        THEN [raised |-> "BotUserError", msg |-> "role_update_failed", info |-> nickname,
              db |-> res.db, pop |-> TRUE]
        ELSE [raised |-> "none", msg |-> "role_changed", info |-> nickname, db |-> res.db,
              pop |-> TRUE]

pop_target_role(c, pop) ==
    user_data' = IF pop THEN [user_data EXCEPT ![c] = NoRole] ELSE user_data

setrole_receive_nickname(c, ev) ==
    /\ Routed(c, ev, "setrole_receive_nickname")
    /\ LET look == setrole_lookup(recipients, user_data[c], ev)
           upd == setrole_update(recipients, look.info, user_data[c])
       IN  IF look.step = "done"
           THEN /\ Done(c, ev, "setrole_receive_nickname", "setrole_conv", look.raised,
                        look.msg, look.info, END)
                /\ pop_target_role(c, look.pop)
                /\ UNCHANGED recipients
           ELSE /\ recipients' = upd.db
                /\ Done(c, ev, "setrole_receive_nickname", "setrole_conv", upd.raised,
                        upd.msg, upd.info, END)
                /\ pop_target_role(c, upd.pop)
    /\ UNCHANGED txn

unsubscribe_user_start(c, ev) ==
    /\ Routed(c, ev, "unsubscribe_user_start")
    /\ IF ~is_admin_chat(recipients, c)
       THEN Done(c, ev, "unsubscribe_user_start", "unsub_user_conv", "BotUserError",
                 "admin_only", <<>>, END)
       ELSE Done(c, ev, "unsubscribe_user_start", "unsub_user_conv", "none",
                 "ask_remove_nickname", <<>>, UNSUB_USER_WAIT_NICKNAME)
    /\ UNCHANGED <<recipients, user_data, txn>>

unsubscribe_user_receive_nickname(c, ev) ==
    /\ Routed(c, ev, "unsubscribe_user_receive_nickname")
    /\ LET nickname == strip(ev.text)
           res == delete_by_nickname(recipients, nickname)
       IN  IF nickname = <<>>
           THEN /\ Done(c, ev, "unsubscribe_user_receive_nickname", "unsub_user_conv",
                        "BotUserError", "empty_nickname", <<>>, END)
                /\ UNCHANGED recipients
           ELSE /\ recipients' = res.db
                /\ IF res.deleted = 0
                   THEN Done(c, ev, "unsubscribe_user_receive_nickname", "unsub_user_conv",
                             "BotUserError", "nickname_not_found", nickname, END)
                   ELSE DoneRemoved(c, ev, "unsubscribe_user_receive_nickname",
                                    "unsub_user_conv", "none", "user_removed", nickname, END,
                                    select_by_nickname(recipients, nickname))
    /\ UNCHANGED <<user_data, txn>>

\* unknown_text taking the text as the nickname of a subscription
unknown_text_as_input(c, ev) ==
    /\ Routed(c, ev, "unknown_text")
    /\ LET res == subscribe_receive_result(recipients, c, ev)
       IN  /\ recipients' = res.db
           /\ Done(c, ev, "unknown_text", "none", res.raised, res.msg, res.info, END)
    /\ UNCHANGED <<user_data, txn>>

unknown_text(c, ev) ==
    /\ Routed(c, ev, "unknown_text")
    /\ Done(c, ev, "unknown_text", "none", "none", "help", <<>>, END)
    /\ UNCHANGED <<recipients, user_data, txn>>

\* an update no handler of the group accepts: nothing runs, nothing is replied
unhandled(c, ev) ==
    /\ Routed(c, ev, "none")
    /\ Done(c, ev, "none", "none", "none", "none", <<>>, END)
    /\ UNCHANGED <<recipients, user_data, txn>>

\* ---- the same two handlers, one database statement at a time (SpecConc)

\* subscribe_receive up to the first SELECT of save_recipient (the chat's row)
subscribe_receive_begin(c, ev) ==
    /\ Routed(c, ev, "subscribe_receive")
    /\ IF strip(ev.text) = <<>>
       THEN /\ Done(c, ev, "subscribe_receive", "subscribe_conv", "BotUserError",
                    "empty_nickname", <<>>, END)
            /\ UNCHANGED txn
       ELSE /\ txn' = [txn EXCEPT ![c] =
                         [pc |-> "read_nick", ev |-> ev,
                          row_chat |-> fetchone(select_by_chat(recipients, c))]]
            /\ UNCHANGED <<conv, last>>
    /\ UNCHANGED <<recipients, user_data>>

\* the second SELECT (the nickname's row) and the branch; the two raise
\* statements end the handler here
save_read_nick(c) ==
    /\ txn[c].pc = "read_nick"
    /\ LET ev == txn[c].ev
           nickname == strip(ev.text)
           row_nick == fetchone(select_by_nickname(recipients, nickname))
           kind == save_decide(txn[c].row_chat, row_nick, nickname, c)
           res == save_write(recipients, kind, txn[c].row_chat, nickname, c, ev.username)
       IN  IF kind \in {"update", "insert"}
           THEN /\ txn' = [txn EXCEPT ![c] =
                             [pc |-> "write", ev |-> ev, row_chat |-> txn[c].row_chat,
                              kind |-> kind]]
                /\ UNCHANGED <<conv, last>>
           ELSE /\ Done(c, ev, "subscribe_receive", "subscribe_conv", res.raised, res.msg,
                        res.info, END)
                /\ txn' = [txn EXCEPT ![c] = Idle]
    /\ UNCHANGED <<recipients, user_data, updates, push>>

\* the UPDATE or the INSERT, and the commit
save_commit(c) ==
    /\ txn[c].pc = "write"
    /\ LET ev == txn[c].ev
           res == save_write(recipients, txn[c].kind, txn[c].row_chat, strip(ev.text), c,
                             ev.username)
       IN  /\ recipients' = res.db
           /\ Done(c, ev, "subscribe_receive", "subscribe_conv", res.raised, res.msg,
                   res.info, END)
    /\ txn' = [txn EXCEPT ![c] = Idle]
    /\ UNCHANGED <<user_data, updates, push>>

\* setrole_receive_nickname up to get_recipient_by_nickname (its own transaction)
setrole_receive_begin(c, ev) ==
    /\ Routed(c, ev, "setrole_receive_nickname")
    /\ LET look == setrole_lookup(recipients, user_data[c], ev)
       IN  IF look.step = "done"
           THEN /\ Done(c, ev, "setrole_receive_nickname", "setrole_conv", look.raised,
                        look.msg, look.info, END)
                /\ pop_target_role(c, look.pop)
                /\ UNCHANGED txn
           ELSE /\ txn' = [txn EXCEPT ![c] = [pc |-> "set_role", ev |-> ev]]
                /\ UNCHANGED <<conv, last, user_data>>
    /\ UNCHANGED recipients

\* set_role (a second transaction) and the reply
setrole_commit(c) ==
    /\ txn[c].pc = "set_role"
    /\ LET ev == txn[c].ev
           upd == setrole_update(recipients, strip(ev.text), user_data[c])
       IN  /\ recipients' = upd.db
           /\ Done(c, ev, "setrole_receive_nickname", "setrole_conv", upd.raised, upd.msg,
                   upd.info, END)
           /\ pop_target_role(c, upd.pop)
    /\ txn' = [txn EXCEPT ![c] = Idle]
    /\ UNCHANGED <<updates, push>>

Next ==
    \/ \E c \in Chats : start(c, Command("start"))
    \/ \E c \in Chats : cancel_all(c, Command("cancel"))
    \/ \E c \in Chats : subscribe_start(c, Command("subscribe"))
    \/ \E c \in Chats : \E ev \in TextEvents : subscribe_receive(c, ev)
    \/ \E c \in Chats : unsubscribe(c, Command("unsubscribe"))
    \/ \E c \in Chats : whoami(c, Command("whoami"))
    \/ \E c \in Chats : list_users(c, Command("list_users"))
    \/ \E c \in Chats : setrole_start(c, Command("setrole"))
    \/ \E c \in Chats : \E ev \in CallbackEvents : setrole_choose_role(c, ev)
    \/ \E c \in Chats : \E ev \in TextEvents : setrole_receive_nickname(c, ev)
    \/ \E c \in Chats : unsubscribe_user_start(c, Command("unsubscribe_user"))
    \/ \E c \in Chats : \E ev \in TextEvents : unsubscribe_user_receive_nickname(c, ev)
    \/ \E c \in Chats : \E ev \in TextEvents : unknown_text(c, ev)
    \/ \E c \in Chats : \E ev \in Events : unhandled(c, ev)

Spec == Init /\ [][Next]_vars

NextConc ==
    \/ \E c \in Chats : start(c, Command("start"))
    \/ \E c \in Chats : cancel_all(c, Command("cancel"))
    \/ \E c \in Chats : subscribe_start(c, Command("subscribe"))
    \/ \E c \in Chats : \E ev \in TextEvents : subscribe_receive_begin(c, ev)
    \/ \E c \in Chats : save_read_nick(c)
    \/ \E c \in Chats : save_commit(c)
    \/ \E c \in Chats : unsubscribe(c, Command("unsubscribe"))
    \/ \E c \in Chats : whoami(c, Command("whoami"))
    \/ \E c \in Chats : list_users(c, Command("list_users"))
    \/ \E c \in Chats : setrole_start(c, Command("setrole"))
    \/ \E c \in Chats : \E ev \in CallbackEvents : setrole_choose_role(c, ev)
    \/ \E c \in Chats : \E ev \in TextEvents : setrole_receive_begin(c, ev)
    \/ \E c \in Chats : setrole_commit(c)
    \/ \E c \in Chats : unsubscribe_user_start(c, Command("unsubscribe_user"))
    \/ \E c \in Chats : \E ev \in TextEvents : unsubscribe_user_receive_nickname(c, ev)
    \/ \E c \in Chats : \E ev \in TextEvents : unknown_text(c, ev)
    \/ \E c \in Chats : \E ev \in Events : unhandled(c, ev)

SpecConc == Init /\ [][NextConc]_vars

\* ------------------------------------------------- the registry functions
\* SpecStore: the functions of bot.py that read and write the table, called
\* directly with any arguments, one call after the other.
RoleArgs == Roles \cup {"root", NoRole}

StoreCall(f, chat_id, nickname, username, role, raised, msg, info, removed) ==
    [chat |-> chat_id, handler |-> f, conv |-> "none", name |-> "", data |-> <<role>>,
     nickname |-> nickname, username |-> username, raised |-> raised, reply |-> msg,
     info |-> info, removed |-> removed]

call_save_recipient(nickname, chat_id, username) ==
    LET res == save_recipient(recipients, nickname, chat_id, username)
    IN  /\ recipients' = res.db
        /\ last' = StoreCall("save_recipient", chat_id, nickname, username, NoRole,
                             res.raised, res.msg, res.info, {})
        /\ UNCHANGED <<conv, user_data, txn, updates, push>>

call_delete_by_nickname(nickname) ==
    LET res == delete_by_nickname(recipients, nickname)
    IN  /\ recipients' = res.db
        /\ last' = StoreCall("delete_by_nickname", 0, nickname, NoUsername, NoRole, "none",
                             IF res.deleted > 0 THEN "deleted" ELSE "nothing_deleted", <<>>,
                             select_by_nickname(recipients, nickname))
        /\ UNCHANGED <<conv, user_data, txn, updates, push>>

call_unsubscribe_chat(chat_id) ==
    LET res == unsubscribe_chat(recipients, chat_id)
    IN  /\ recipients' = res.db
        /\ last' = StoreCall("unsubscribe_chat", chat_id, <<>>, NoUsername, NoRole, "none",
                             IF res.deleted > 0 THEN "deleted" ELSE "nothing_deleted", <<>>,
                             select_by_chat(recipients, chat_id))
        /\ UNCHANGED <<conv, user_data, txn, updates, push>>

call_set_role(nickname, role) ==
    LET res == set_role(recipients, nickname, role)
    IN  /\ recipients' = res.db
        /\ last' = StoreCall("set_role", 0, nickname, NoUsername, role, res.raised,
                             IF res.updated > 0 THEN "updated" ELSE "nothing_updated", <<>>,
                             {})
        /\ UNCHANGED <<conv, user_data, txn, updates, push>>

NextStore ==
    \/ \E n \in Nicknames : \E c \in Chats : \E u \in Usernames : call_save_recipient(n, c, u)
    \/ \E n \in Nicknames : call_delete_by_nickname(n)
    \/ \E c \in Chats : call_unsubscribe_chat(c)
    \/ \E n \in Nicknames : \E role \in RoleArgs : call_set_role(n, role)

SpecStore == Init /\ [][NextStore]_vars

\* ------------------------------------------------------ notify_service.py
\* SpecNotify: POST /notify, one statement at a time, while the bot's registry
\* functions change the table the service reads. The database is reachable.
API_SECRET == "secret"

Secrets == {API_SECRET, "other"}

\* what requests.post ends with: a response with a status code, or an exception
\* of requests (connection error, timeout after 10 s)
StatusCodes == {200, 403, 500}

TransportOutcomes ==
    {[kind |-> "response", status_code |-> sc, raised |-> "none"] : sc \in StatusCodes}
      \cup {[kind |-> "exception", status_code |-> 0, raised |-> e]
              : e \in {"ConnectionError", "Timeout"}}

\* requests.Response.ok
resp_ok(status_code) == ~(400 <= status_code /\ status_code < 600)

\* get_chat_id ignoring the WHERE clause when the nickname has no row
get_chat_id_any_row(R, nickname) ==
    LET row == fetchone(select_by_nickname(R, nickname))
    IN  IF row = None
        THEN IF R = {}
             THEN [raised |-> "KeyError", chat_id |-> 0]
             ELSE [raised |-> "none", chat_id |-> (CHOOSE r \in R : TRUE).chat_id]
        ELSE [raised |-> "none", chat_id |-> row.chat_id]

get_chat_id(R, nickname) ==
    LET row == fetchone(select_by_nickname(R, nickname))
    IN  IF row = None
        THEN [raised |-> "KeyError", chat_id |-> 0]
        ELSE [raised |-> "none", chat_id |-> row.chat_id]

\* send_telegram_message, given what requests.post ends with
send_telegram_message(outcome) ==
    IF outcome.kind = "exception"
    THEN outcome.raised
    ELSE IF ~resp_ok(outcome.status_code)
    THEN "RuntimeError"
    ELSE "none"

\* the response to a request whose endpoint ended with the exception raised
\* (HTTPException as its status code; any other exception is the server's 500)
http_response(raised) ==
    CASE raised = "none" -> [status |-> 200, body |-> "ok"]
      [] raised = "HTTP403" -> [status |-> 403, body |-> "Invalid secret"]
      [] raised = "HTTP404" -> [status |-> 404, body |-> "nickname not found"]
      [] raised = "HTTP502" -> [status |-> 502, body |-> "Telegram error"]
      [] OTHER -> [status |-> 500, body |-> "Internal Server Error"]

Respond(p, raised) ==
    [p EXCEPT !.pc = "done", !.status = http_response(raised).status,
              !.body = http_response(raised).body]

\* a request arrives: the comparison of the secret
notify_begin(secret, nickname) ==
    /\ push.pc \in {"idle", "done"}
    /\ LET p == [NoPush EXCEPT !.secret = secret, !.nickname = nickname]
       IN  push' = IF secret # API_SECRET
                   THEN Respond(p, "HTTP403")
                   ELSE [p EXCEPT !.pc = "get_chat_id"]
    /\ UNCHANGED <<recipients, conv, user_data, txn, last, updates>>

\* chat_id = get_chat_id(payload.nickname), KeyError answered with 404
notify_get_chat_id ==
    /\ push.pc = "get_chat_id"
    /\ LET res == get_chat_id(recipients, push.nickname)
       IN  push' = IF res.raised = "KeyError"
                   THEN Respond(push, "HTTP404")
                   ELSE [push EXCEPT !.pc = "send", !.chat_id = res.chat_id]
    /\ UNCHANGED <<recipients, conv, user_data, txn, last, updates>>

\* notify_send that posts a second time when the first post failed
notify_send_retry(outcome) ==
    /\ push.pc = "send"
    /\ LET raised == send_telegram_message(outcome)
           p == [push EXCEPT !.sent = IF raised = "none"
                                      THEN Append(@, push.chat_id)
                                      ELSE Append(Append(@, push.chat_id), push.chat_id),
                             !.transport = outcome]
       IN  push' = Respond(p, IF raised = "RuntimeError" THEN "HTTP502" ELSE raised)
    /\ UNCHANGED <<recipients, conv, user_data, txn, last, updates>>

\* send_telegram_message(chat_id, payload.text): one requests.post; RuntimeError
\* answered with 502, no other exception caught
notify_send(outcome) ==
    /\ push.pc = "send"
    /\ LET raised == send_telegram_message(outcome)
           p == [push EXCEPT !.sent = Append(@, push.chat_id), !.transport = outcome]
       IN  push' = Respond(p, IF raised = "RuntimeError" THEN "HTTP502" ELSE raised)
    /\ UNCHANGED <<recipients, conv, user_data, txn, last, updates>>

NextNotify ==
    \/ \E secret \in Secrets : \E n \in Nicknames : notify_begin(secret, n)
    \/ notify_get_chat_id
    \/ \E outcome \in TransportOutcomes : notify_send(outcome)
    \/ \E n \in Nicknames : \E c \in Chats : \E u \in Usernames : call_save_recipient(n, c, u)
    \/ \E n \in Nicknames : call_delete_by_nickname(n)
    \/ \E c \in Chats : call_unsubscribe_chat(c)
    \/ \E n \in Nicknames : \E role \in Roles : call_set_role(n, role)

SpecNotify == Init /\ [][NextNotify]_vars

\* ------------------------------------------------- database unreachable
\* SpecOutage: the bot of Spec, with a database that may be unreachable when a
\* handler opens its connection.
DbHandlers ==
    {"unsubscribe", "whoami", "list_users", "setrole_start", "unsubscribe_user_start"}

\* handler h, given update ev of chat c, reaches a get_conn()
calls_db(c, ev, h) ==
    \/ h \in DbHandlers
    \/ h \in {"subscribe_receive", "unsubscribe_user_receive_nickname"}
         /\ strip(ev.text) # <<>>
    \/ h = "setrole_receive_nickname" /\ strip(ev.text) # <<>> /\ user_data[c] \in Roles

\* psycopg.connect raises OperationalError in the handler's first get_conn():
\* nothing was written or popped before, the exception leaves the handler
db_unreachable(c, ev) ==
    /\ Routed(c, ev, route(c, ev).handler)
    /\ calls_db(c, ev, route(c, ev).handler)
    /\ Done(c, ev, route(c, ev).handler, route(c, ev).conv, "OperationalError", "",
            <<>>, END)
    /\ UNCHANGED <<recipients, user_data, txn>>

NextOutage ==
    \/ Next
    \/ \E c \in Chats : \E ev \in Events : db_unreachable(c, ev)

SpecOutage == Init /\ [][NextOutage]_vars

\* =============================================================== claims

\* C1: in every reachable state of the table, also between the statements of
\* concurrent registers, role changes and removals, no two rows share a
\* nickname and no two rows share a chat_id.
C1_UniquePairs ==
    \A r1, r2 \in recipients :
        r1 # r2 => (r1.nickname # r2.nickname /\ r1.chat_id # r2.chat_id)

\* a register is about to INSERT a nickname that another chat took meanwhile
C1_Witness ==
    \E c \in Chats :
        /\ txn[c].pc = "write"
        /\ txn[c].kind = "insert"
        /\ \E r \in recipients : r.nickname = strip(txn[c].ev.text) /\ r.chat_id # c

\* C2: a register that loses a race ends with the typed failure NicknameTaken or
\* ChatAlreadyBound (or succeeds after a retry), never with the generic error,
\* and the pairing stays unique.
C2_LoserTypedFailure ==
    /\ last.handler = "subscribe_receive" =>
           last.reply \in {"subscribed", "nickname_taken", "chat_already_bound",
                           "empty_nickname"}
    /\ \A r1, r2 \in recipients :
           (r1.nickname = r2.nickname \/ r1.chat_id = r2.chat_id) => r1 = r2

\* C3 as stated: whenever nickname n is registered to c1, save_recipient(n, c2, _)
\* of any other chat c2 fails with NicknameTaken and leaves the table unchanged.
C3_Original ==
    [][(/\ last'.handler = "save_recipient"
        /\ \E r \in recipients : r.nickname = last'.nickname /\ r.chat_id # last'.chat)
       => (/\ last'.raised = "BotUserError"
           /\ last'.reply = "nickname_taken"
           /\ recipients' = recipients)]_vars

\* C3 amended: whenever nickname n is registered to c1 and chat c2 # c1 owns no
\* nickname, save_recipient(n, c2, _) fails with NicknameTaken and leaves the
\* table unchanged.
C3_NicknameTaken ==
    [][(/\ last'.handler = "save_recipient"
        /\ select_by_chat(recipients, last'.chat) = {}
        /\ \E r \in recipients : r.nickname = last'.nickname /\ r.chat_id # last'.chat)
       => (/\ last'.raised = "BotUserError"
           /\ last'.reply = "nickname_taken"
           /\ recipients' = recipients)]_vars

C3_Witness ==
    /\ last.handler = "save_recipient"
    /\ last.reply = "nickname_taken"
    /\ select_by_chat(recipients, last.chat) = {}
    /\ \E r \in recipients : r.nickname = last.nickname /\ r.chat_id # last.chat

\* C4: whenever chat c owns n1, save_recipient(n2, c, _) with n2 # n1 fails with
\* ChatAlreadyBound carrying n1 and leaves the table unchanged, also when n2
\* belongs to another chat.
C4_ChatAlreadyBound ==
    [][\A r \in recipients :
         (/\ last'.handler = "save_recipient"
          /\ r.chat_id = last'.chat
          /\ r.nickname # last'.nickname)
         => (/\ last'.raised = "BotUserError"
             /\ last'.reply = "chat_already_bound"
             /\ last'.info = r.nickname
             /\ recipients' = recipients)]_vars

\* the refused nickname belongs to another chat
C4_Witness ==
    /\ last.handler = "save_recipient"
    /\ last.reply = "chat_already_bound"
    /\ \E r \in recipients : r.nickname = last.nickname /\ r.chat_id # last.chat
    /\ \E r \in recipients : r.chat_id = last.chat /\ r.nickname = last.info

\* C5: save_recipient of a pair (nickname, chat_id) that is already a row
\* succeeds and changes nothing but that row's username, which becomes the one
\* supplied; the role, also an admin role, and every other row stay.
C5_Reregister ==
    [][\A r \in recipients :
         (/\ last'.handler = "save_recipient"
          /\ r.nickname = last'.nickname
          /\ r.chat_id = last'.chat)
         => (/\ last'.raised = "none"
             /\ last'.reply = "subscribed"
             /\ recipients' = (recipients \ {r})
                                \cup {[r EXCEPT !.username = last'.username]})]_vars

\* an admin registered its own pair again, with another row in the table
C5_Witness ==
    /\ last.handler = "save_recipient"
    /\ last.reply = "subscribed"
    /\ Cardinality(recipients) > 1
    /\ \E r \in recipients :
           /\ r.nickname = last.nickname
           /\ r.chat_id = last.chat
           /\ r.role = "admin"
           /\ r.username = last.username

\* C6: right after the row (n, c) is deleted, by unsubscribe_chat(c) or by
\* delete_by_nickname(n), save_recipient(n, c2, _) of another chat c2 that owns
\* no nickname succeeds, and save_recipient(n2, c, _) with a free nickname n2
\* succeeds; both insert the new row with role user.
C6_ReuseAfterDelete ==
    [][\A d \in last.removed :
         (/\ last'.handler = "save_recipient"
          /\ \/ /\ last'.nickname = d.nickname
                /\ last'.chat # d.chat_id
                /\ select_by_chat(recipients, last'.chat) = {}
             \/ /\ last'.chat = d.chat_id
                /\ select_by_nickname(recipients, last'.nickname) = {})
         => (/\ last'.raised = "none"
             /\ last'.reply = "subscribed"
             /\ recipients' = recipients
                  \cup {Recipient(last'.nickname, last'.chat, last'.username, "user")})]_vars

\* a row was deleted and another chat owns no nickname
C6_Witness ==
    /\ last.handler \in {"delete_by_nickname", "unsubscribe_chat"}
    /\ \E d \in last.removed : \E c \in Chats :
           c # d.chat_id /\ select_by_chat(recipients, c) = {}

\* C7: every row's role is user or admin in every reachable state; a row that
\* save_recipient inserts has role user; set_role with any other role raises
\* before it touches the table.
C7_Roles ==
    /\ [](\A r \in recipients : r.role \in {"user", "admin"})
    /\ [][/\ last'.handler = "save_recipient" =>
                \A r \in recipients' \ recipients :
                    r.role = "user" \/ \E o \in recipients : o.nickname = r.nickname
          /\ (last'.handler = "set_role" /\ last'.data[1] \notin {"user", "admin"}) =>
                (last'.raised = "ValueError" /\ recipients' = recipients)]_vars

\* set_role refused a role outside {user, admin} for a registered nickname
C7_Witness ==
    /\ last.handler = "set_role"
    /\ last.data[1] = "root"
    /\ last.raised = "ValueError"
    /\ select_by_nickname(recipients, last.nickname) # {}

\* the dialogue an entry command opens
DialogueOf(name) ==
    IF name = "setrole" THEN "setrole_conv" ELSE "unsub_user_conv"

\* C8 as stated: a chat without an admin row that sends /setrole or
\* /unsubscribe_user gets the authorization error, no session is created and
\* the table is unchanged.
C8_Original ==
    [][(/\ updates' # updates
        /\ last'.name \in {"setrole", "unsubscribe_user"}
        /\ ~is_admin_chat(recipients, last'.chat))
       => (/\ last'.reply = "admin_only"
           /\ conv' = conv
           /\ recipients' = recipients)]_vars

\* C8 amended: a chat without an admin row that sends /setrole or
\* /unsubscribe_user while it has no session of that dialogue gets the
\* authorization error; no session state changes (an idle chat stays idle), the
\* pending role and the table are unchanged.
C8_AuthFailure ==
    [][(/\ updates' # updates
        /\ last'.name \in {"setrole", "unsubscribe_user"}
        /\ conv[DialogueOf(last'.name)][last'.chat] = END
        /\ ~is_admin_chat(recipients, last'.chat))
       => (/\ last'.raised = "BotUserError"
           /\ last'.reply = "admin_only"
           /\ conv' = conv
           /\ user_data' = user_data
           /\ recipients' = recipients)]_vars

\* an idle chat was refused /setrole
C8_Witness ==
    /\ last.name = "setrole"
    /\ last.reply = "admin_only"
    /\ \A n \in ConvNames : conv[n][last.chat] = END

\* C9: no chat is in a non-idle state of two dialogues at once.
C9_OneSession ==
    \A c \in Chats : Cardinality({n \in ConvNames : conv[n][c] # END}) <= 1

\* C10: when a chat in a non-idle state sends /cancel, no dialogue of that chat
\* is active afterwards, the confirmation is replied and the table is unchanged.
C10_CancelIdle ==
    [][(/\ updates' # updates
        /\ last'.name = "cancel"
        /\ \E n \in ConvNames : conv[n][last'.chat] # END)
       => (/\ \A n \in ConvNames : conv'[n][last'.chat] = END
           /\ last'.reply = "cancelled"
           /\ recipients' = recipients)]_vars

\* C11: when a chat that waits for the target nickname of the role dialogue
\* sends /cancel, no pending target role is stored for that chat afterwards.
C11_CancelDiscards ==
    [][(/\ updates' # updates
        /\ last'.name = "cancel"
        /\ last'.conv = "setrole_conv"
        /\ conv["setrole_conv"][last'.chat] = SETROLE_WAIT_NICKNAME)
       => user_data'[last'.chat] = NoRole]_vars

\* C12: when the nickname sent at the last step of the role dialogue is not a
\* row, NicknameNotFound is replied, the table is unchanged and the chat's role
\* dialogue is over.
C12_NotFoundEnds ==
    [][(/\ updates' # updates
        /\ last'.handler = "setrole_receive_nickname"
        /\ last'.nickname # <<>>
        /\ user_data[last'.chat] \in Roles
        /\ select_by_nickname(recipients, last'.nickname) = {})
       => (/\ last'.reply = "nickname_not_found"
           /\ recipients' = recipients
           /\ conv'["setrole_conv"][last'.chat] = END)]_vars

\* C13: at the last step of the role dialogue with a registered target: if the
\* target already has the chosen role the no-op reply is sent, the table is
\* unchanged and the dialogue is over; otherwise the change is replied and the
\* table differs exactly in the target row's role, now the chosen one.
C13_RoleTransition ==
    [][\A r \in recipients :
         (/\ updates' # updates
          /\ last'.handler = "setrole_receive_nickname"
          /\ r.nickname = last'.nickname
          /\ user_data[last'.chat] \in Roles)
         => IF r.role = user_data[last'.chat]
            THEN /\ last'.raised = "none"
                 /\ last'.reply = "role_unchanged"
                 /\ recipients' = recipients
                 /\ conv'["setrole_conv"][last'.chat] = END
            ELSE /\ last'.raised = "none"
                 /\ last'.reply = "role_changed"
                 /\ recipients' = (recipients \ {r})
                                    \cup {[r EXCEPT !.role = user_data[last'.chat]]}]_vars

\* the role of one of two rows was changed to admin
C13_Witness ==
    /\ last.handler = "setrole_receive_nickname"
    /\ last.reply = "role_changed"
    /\ Cardinality(recipients) > 1
    /\ \E r \in recipients : r.nickname = last.nickname /\ r.role = "admin"

\* C14: when a chat that is choosing the role sends a callback whose data is
\* neither role:admin nor role:user, an error is replied and the chat is no
\* longer choosing the role, nor waiting for the target nickname.
C14_BadTokenAbandons ==
    [][(/\ updates' # updates
        /\ last'.data # <<>>
        /\ ~(last'.data[1] = "role" /\ last'.data[2] \in {"admin", "user"})
        /\ conv["setrole_conv"][last'.chat] = SETROLE_CHOOSE_ROLE)
       => (/\ last'.raised = "BotUserError"
           /\ last'.reply \notin {"none", "generic"}
           /\ conv'["setrole_conv"][last'.chat]
                  \notin {SETROLE_CHOOSE_ROLE, SETROLE_WAIT_NICKNAME})]_vars

\* C15: the nickname n sent in the removal dialogue deletes the row of n and no
\* other row; without such a row NicknameNotFound is replied and the table is
\* unchanged; in both cases the chat's removal dialogue is over.
C15_ForcedRemoval ==
    [][(/\ updates' # updates
        /\ last'.handler = "unsubscribe_user_receive_nickname"
        /\ last'.nickname # <<>>)
       => (/\ recipients' = {r \in recipients : r.nickname # last'.nickname}
           /\ select_by_nickname(recipients, last'.nickname) = {}
                 => last'.reply = "nickname_not_found"
           /\ select_by_nickname(recipients, last'.nickname) # {}
                 => last'.reply = "user_removed"
           /\ conv'["unsub_user_conv"][last'.chat] = END)]_vars

\* C16: a text message (no command, no callback) of a chat that is in no
\* dialogue goes to unknown_text: the help text is replied, and the table, every
\* chat's dialogue state and the pending roles are unchanged.
C16_FreeTextHelp ==
    [][(/\ updates' # updates
        /\ last'.name = ""
        /\ last'.data = <<>>
        /\ \A n \in ConvNames : conv[n][last'.chat] = END)
       => (/\ last'.handler = "unknown_text"
           /\ last'.raised = "none"
           /\ last'.reply = "help"
           /\ recipients' = recipients
           /\ conv' = conv
           /\ user_data' = user_data)]_vars

\* the help text went to a chat that had chosen a role and then cancelled
C16_Witness ==
    /\ last.handler = "unknown_text"
    /\ last.reply = "help"
    /\ user_data[last.chat] # NoRole
    /\ \A n \in ConvNames : conv[n][last.chat] = END

\* C17: a request whose secret differs from API_SECRET is answered 403, whether
\* its nickname has a row or not; with the right secret a nickname without a row
\* is answered 404; with the right secret, a row found and a delivery that
\* succeeds the answer is 200 "ok" and the one delivery went to the chat_id the
\* row had when it was looked up.
C17_NotifyOutcome ==
    [][/\ (push' # push /\ push.pc \in {"idle", "done"} /\ push'.secret # API_SECRET)
            => (push'.pc = "done" /\ push'.status = 403)
       /\ (push' # push /\ push.pc = "get_chat_id"
             /\ select_by_nickname(recipients, push.nickname) = {})
            => (push'.pc = "done" /\ push'.status = 404)
       /\ (push' # push /\ push.pc = "get_chat_id"
             /\ select_by_nickname(recipients, push.nickname) # {})
            => (/\ push'.pc = "send"
                /\ \E r \in recipients :
                       r.nickname = push.nickname /\ r.chat_id = push'.chat_id)
       /\ (push' # push /\ push.pc = "send" /\ push'.transport.kind = "response"
             /\ push'.transport.status_code = 200)
            => (/\ push'.pc = "done"
                /\ push'.status = 200
                /\ push'.body = "ok"
                /\ push'.sent = <<push.chat_id>>)]_vars

\* a delivery was answered 200 after the nickname's row had gone to another chat
C17_Witness ==
    /\ push.pc = "done"
    /\ push.status = 200
    /\ \E r \in recipients : r.nickname = push.nickname /\ <<r.chat_id>> # push.sent

\* C18: an authorized request for a registered nickname whose delivery fails,
\* by a response that is not 2xx or by a network failure, is answered 502.
C18_DeliveryFailed ==
    (/\ push.pc = "done"
     /\ push.transport # NoTransport
     /\ ~(push.transport.kind = "response" /\ push.transport.status_code = 200))
    => push.status = 502

\* C19: a request posts to the transport at most once, and not at all when it
\* is answered 403 or 404; no step of a request changes the table.
C19_SingleAttempt ==
    /\ [](/\ Len(push.sent) <= 1
          /\ push.status \in {403, 404} => push.sent = <<>>)
    /\ [][push' # push => recipients' = recipients]_vars

\* a delivery failed and the request was answered after that single post
C19_Witness ==
    /\ push.pc = "done"
    /\ push.status = 502
    /\ Len(push.sent) = 1

\* C20: when the database is unreachable in the last step of a dialogue
\* (subscribe_receive, setrole_receive_nickname,
\* unsubscribe_user_receive_nickname), the generic text is replied and the
\* chat's dialogue is over.
C20_CommitFailureClears ==
    [][(/\ updates' # updates
        /\ last'.raised = "OperationalError"
        /\ last'.handler \in {"subscribe_receive", "setrole_receive_nickname",
                              "unsubscribe_user_receive_nickname"})
       => (/\ last'.reply = "generic"
           /\ conv'[last'.conv][last'.chat] = END)]_vars

\* C21: the last step of the role dialogue or of the removal dialogue changes
\* the table only when the chat that sends the nickname owns an admin row at
\* that moment.
C21_AdminAtCommit ==
    [][(/\ updates' # updates
        /\ last'.handler \in {"setrole_receive_nickname",
                              "unsubscribe_user_receive_nickname"}
        /\ recipients' # recipients)
       => is_admin_chat(recipients, last'.chat)]_vars

\* C22: once no row has role admin, no update of any chat puts a row with role
\* admin into the table.
C22_NoAdminFromNone ==
    [][(\A r \in recipients : r.role # "admin")
       => (\A r \in recipients' : r.role # "admin")]_vars

====
